---- MODULE Spec2Model ----
(***************************************************************************)
(* Change-detection deployer for stored procedures (src/main.py).          *)
(*                                                                         *)
(* One process run is deploy_stored_procedures(): connect, ensure the      *)
(* metadata table, load the persisted fingerprints, scan the scripts       *)
(* directory, execute the new or changed scripts statement by statement,   *)
(* upsert their fingerprints, close, summarise and exit.  The database     *)
(* (metadata table, applied statements) and the scripts directory outlive  *)
(* a run; between two runs the directory may be edited.                    *)
(***************************************************************************)
EXTENDS Integers, Sequences, FiniteSets, TLC

\* ------------------------------------------------------------------ bounds
\* Number of lines of a text given to the splitter on its own.
MaxLines == 3
\* Number of .sql files the scripts directory can hold.
NumScripts == 2
\* Number of edits of the scripts directory over a behaviour.
MaxEdits == 1
\* Number of calls on the connection that fail in one run.
MaxFaults == 2

\* -------------------------------------------------------- program constants
\* The retry loop with one pass too many.
RetriesOffByOne == 10 + 1

\* max_retries = 10
max_retries == 10

EnvVars == {"DB_SERVER", "DB_DATABASE", "DB_USERNAME", "DB_PASSWORD", "DB_PORT"}

\* ------------------------------------------------------------- file system
\* A file name is <<stem, extension>>; the directory can hold NumScripts
\* .sql files and one file of another kind.
SqlFiles == {<<s, "sql">> : s \in 1..NumScripts}
OtherFile == <<0, "txt">>
FileNames == SqlFiles \cup {OtherFile}

\* filename.endswith(".sql")
IsSqlFile(fn) == fn[2] = "sql"

\* os.path.splitext(filename)[0]
ScriptName(fn) == fn[1]

\* The byte contents a file can have.  A content is its byte-order mark, whether
\* the bytes are valid UTF-8, and its text as lines of characters.
\*   1: "stmtD"
\*   2: BOM "stmtA\nGO\nstmtB\n  go  \nstmtC"
\*   3: bytes that are not valid UTF-8
ContentIds == {1, 2, 3}
Bytes(c) ==
  CASE c = 1 -> [bom |-> FALSE, valid |-> TRUE,
                 lines |-> << <<"s","t","m","t","D">> >>]
    [] c = 2 -> [bom |-> TRUE, valid |-> TRUE,
                 lines |-> << <<"s","t","m","t","A">>,
                              <<"G","O">>,
                              <<"s","t","m","t","B">>,
                              <<" "," ","g","o"," "," ">>,
                              <<"s","t","m","t","C">> >>]
    [] OTHER -> [bom |-> FALSE, valid |-> FALSE, lines |-> << >>]

\* calculate_file_hash: SHA-256 of the raw bytes, taken as collision free:
\* equal digests exactly for equal bytes.  The digest of the bytes numbered c is
\* written <<"sha256", c>>.
calculate_file_hash(c) == <<"sha256", c>>

NoHash == <<"none">>

\* file.read() under encoding utf-8-sig: fails on invalid bytes, drops the BOM.
CanDecode(c) == Bytes(c).valid
ReadText(c) == Bytes(c).lines

\* ---------------------------------------------------------------- splitter
IsSpace(ch) == ch \in {" ", "\t"}

RECURSIVE LStrip(_)
LStrip(s) == IF s = << >> THEN s
             ELSE IF IsSpace(Head(s)) THEN LStrip(Tail(s)) ELSE s

RECURSIVE RStrip(_)
RStrip(s) == IF s = << >> THEN s
             ELSE IF IsSpace(s[Len(s)]) THEN RStrip(SubSeq(s, 1, Len(s) - 1)) ELSE s

Strip(s) == RStrip(LStrip(s))

\* (?i): case folding of the two letters of the keyword
Upper(ch) == CASE ch = "g" -> "G" [] ch = "o" -> "O" [] OTHER -> ch

\* The pattern without its end anchor: ^\s*GO
IsGoLinePrefix(line) ==
  LET t == Strip(line)
  IN  Len(t) >= 2 /\ Upper(t[1]) = "G" /\ Upper(t[2]) = "O"

\* ^\s*GO\s*$ under (?im)
IsGoLine(line) ==
  LET t == Strip(line)
  IN  Len(t) = 2 /\ Upper(t[1]) = "G" /\ Upper(t[2]) = "O"

\* re.split: the runs of lines between separator lines
RECURSIVE SplitAt(_, _, _)
SplitAt(ls, cur, acc) ==
  IF ls = << >> THEN Append(acc, cur)
  ELSE IF IsGoLine(Head(ls)) THEN SplitAt(Tail(ls), << >>, Append(acc, cur))
  ELSE SplitAt(Tail(ls), Append(cur, Head(ls)), acc)

IsBlank(line) == Strip(line) = << >>

RECURSIVE DropBlankHead(_)
DropBlankHead(seg) == IF seg = << >> THEN seg
                      ELSE IF IsBlank(Head(seg)) THEN DropBlankHead(Tail(seg)) ELSE seg

RECURSIVE DropBlankLast(_)
DropBlankLast(seg) == IF seg = << >> THEN seg
                      ELSE IF IsBlank(seg[Len(seg)])
                           THEN DropBlankLast(SubSeq(seg, 1, Len(seg) - 1)) ELSE seg

\* stmt.strip() of a segment kept as lines
StripSegment(seg) ==
  LET t == DropBlankLast(DropBlankHead(seg))
  IN  IF t = << >> THEN t
      ELSE LET u == [t EXCEPT ![1] = LStrip(t[1])]
           IN  [u EXCEPT ![Len(u)] = RStrip(u[Len(u)])]

NonEmpty(seg) == seg # << >>

\* statements = [stmt.strip() for stmt in re.split(...) if stmt.strip()]
SplitStatements(text) ==
  LET segs == SplitAt(text, << >>, << >>)
  IN  SelectSeq([k \in 1..Len(segs) |-> StripSegment(segs[k])], NonEmpty)

\* The statements of every file content, split once.
SplitContents == [c \in ContentIds |-> SplitStatements(ReadText(c))]

\* The statements of the file content c.
StatementsOf(c) == SplitContents[c]


\* ------------------------------------------------------------------- state
VARIABLES
  \* the scripts directory (SP_SCRIPTS_DIR) and the edits made to it so far
  dirExists, files, edits,
  \* the database: the metadata table as the set of its records
  \* <<script_name, script_hash>>, the statements applied durably in the
  \* current run, and the work of the open transaction
  tableExists, table, applied, pending,
  \* the process
  pc, env, attempt, cnxn, deployed_hashes, todo, filename, local_hash, i,
  \* the text read from the script being deployed and the statements split from it
  sql_script_content, statements,
  deployed_count, skipped_count, error_count, exit_status, exit_kind,
  \* what the run has logged and which calls it has made on the connection
  log, db_ops,
  \* history: the number of calls on the connection that failed in this run;
  \* the scripts whose current bytes ran without error in an earlier run that
  \* reached its summary; the last run ended with zero errors and the directory
  \* was not edited since
  faults, ok_earlier, last_clean

fsVars == <<dirExists, files, edits>>
dbVars == <<tableExists, table, applied, pending>>
countVars == <<deployed_count, skipped_count, error_count>>
loopVars == <<todo, filename, local_hash, i, sql_script_content, statements>>
histVars == <<ok_earlier, last_clean>>
vars == <<dirExists, files, edits, tableExists, table, applied, pending,
          pc, env, attempt, cnxn, deployed_hashes, todo, filename, local_hash, i,
          sql_script_content, statements,
          deployed_count, skipped_count, error_count, exit_status, exit_kind,
          log, db_ops, faults, ok_earlier, last_clean>>

ScriptNames == 1..NumScripts
NoFile == <<0, "none">>
EmptyMapping == [s \in ScriptNames |-> NoHash]

\* The mapping built from the rows of the table (lines 120-121):
\* deployed_hashes[row.script_name] = row.script_hash.
HashesOf(rows) ==
  [s \in ScriptNames |->
     IF \E r \in rows : r[1] = s THEN (CHOOSE r \in rows : r[1] = s)[2] ELSE NoHash]

\* The file of the directory with the script name s.
FileOf(s) == <<s, "sql">>

\* The scripts of the directory that the log lg shows as read in this run and
\* with every statement executed without error.
RanClean(lg) ==
  {s \in ScriptNames :
     /\ FileOf(s) \in DOMAIN files
     /\ <<"deploying", FileOf(s)>> \in lg
     /\ <<"unexpected", FileOf(s)>> \notin lg
     /\ \A k \in 1..Len(StatementsOf(files[FileOf(s)])) :
          <<"executed", FileOf(s), k>> \in lg}

\* The directory before the first run: missing, empty, or every script in it,
\* the first one with three statements and the others with one.
InitialScripts == [fn \in SqlFiles |-> IF ScriptName(fn) = 1 THEN 2 ELSE 1]

Init ==
  /\ dirExists \in BOOLEAN
  /\ files \in IF dirExists THEN {InitialScripts, << >>} ELSE {<< >>}
  /\ edits = 0
  /\ tableExists = FALSE
  /\ table = {}
  /\ applied = {}
  /\ pending = {}
  /\ pc = "not_started"
  /\ env = {}
  /\ attempt = 0
  /\ cnxn = "none"
  /\ deployed_hashes = EmptyMapping
  /\ todo = {}
  /\ filename = NoFile
  /\ local_hash = NoHash
  /\ sql_script_content = << >>
  /\ statements = << >>
  /\ i = 0
  /\ deployed_count = 0
  /\ skipped_count = 0
  /\ error_count = 0
  /\ exit_status = -1
  /\ exit_kind = "none"
  /\ log = {}
  /\ db_ops = {}
  /\ faults = 0
  /\ ok_earlier = {}
  /\ last_clean = FALSE

\* The process is gone: its memory no longer exists.
NoProcess ==
  /\ env' = {}
  /\ attempt' = 0
  /\ cnxn' = "none"
  /\ deployed_hashes' = EmptyMapping
  /\ todo' = {}
  /\ filename' = NoFile
  /\ local_hash' = NoHash
  /\ sql_script_content' = << >>
  /\ statements' = << >>
  /\ i' = 0
  /\ deployed_count' = 0
  /\ skipped_count' = 0
  /\ error_count' = 0
  /\ exit_status' = -1
  /\ exit_kind' = "none"
  /\ log' = {}
  /\ db_ops' = {}
  /\ faults' = 0
  /\ applied' = {}

\* ------------------------------------------------ the directory is edited
\* Between two runs a file is written with other bytes.
WriteFile(fn, c) ==
  /\ pc \in {"not_started", "exited"}
  /\ edits < MaxEdits
  /\ dirExists
  /\ fn \in DOMAIN files => files[fn] # c
  /\ fn = OtherFile => c = 1
  /\ files' = [f \in DOMAIN files \cup {fn} |-> IF f = fn THEN c ELSE files[f]]
  /\ edits' = edits + 1
  /\ ok_earlier' = ok_earlier \ {ScriptName(fn)}
  /\ last_clean' = FALSE
  /\ pc' = "not_started"
  /\ NoProcess
  /\ UNCHANGED <<dirExists, tableExists, table, pending>>

\* Between two runs a file is deleted.
DeleteFile(fn) ==
  /\ pc \in {"not_started", "exited"}
  /\ edits < MaxEdits
  /\ fn \in DOMAIN files
  /\ files' = [f \in DOMAIN files \ {fn} |-> files[f]]
  /\ edits' = edits + 1
  /\ ok_earlier' = ok_earlier \ {ScriptName(fn)}
  /\ last_clean' = FALSE
  /\ pc' = "not_started"
  /\ NoProcess
  /\ UNCHANGED <<dirExists, tableExists, table, pending>>

\* Between two runs the directory is removed with all its files.
RemoveDir ==
  /\ pc \in {"not_started", "exited"}
  /\ edits < MaxEdits
  /\ dirExists
  /\ dirExists' = FALSE
  /\ files' = << >>
  /\ edits' = edits + 1
  /\ ok_earlier' = {}
  /\ last_clean' = FALSE
  /\ pc' = "not_started"
  /\ NoProcess
  /\ UNCHANGED <<tableExists, table, pending>>

\* Between two runs the directory is created, empty.
CreateDir ==
  /\ pc \in {"not_started", "exited"}
  /\ edits < MaxEdits
  /\ ~dirExists
  /\ dirExists' = TRUE
  /\ files' = << >>
  /\ edits' = edits + 1
  /\ last_clean' = FALSE
  /\ pc' = "not_started"
  /\ NoProcess
  /\ UNCHANGED <<tableExists, table, pending, ok_earlier>>


\* --------------------------------------------------------------- the process
\* n more calls on the connection fail in this run.
Fault(n) == faults + n <= MaxFaults /\ faults' = faults + n

\* The process ends with status code after logging lg: sys.exit, or an exception
\* that nothing catches (kind "unhandled", status 1 with a traceback).  The
\* server discards the work of a transaction that was never committed.
Terminate(code, kind, lg) ==
  /\ pc' = "exited"
  /\ exit_status' = code
  /\ exit_kind' = kind
  /\ log' = lg
  /\ pending' = {}
  /\ ok_earlier' = ok_earlier \cup (IF kind = "summary" THEN RanClean(lg) ELSE {})
  /\ last_clean' = (kind = "summary" /\ code = 0)

\* The environments a run can start in: every variable set, or one missing.
Environments == {EnvVars} \cup {EnvVars \ {v} : v \in EnvVars}

\* python deploy.py / python main.py
StartRun ==
  /\ pc \in {"not_started", "exited"}
  /\ pc' = "get_db_connection"
  /\ env' \in Environments
  /\ attempt' = 0
  /\ cnxn' = "none"
  /\ deployed_hashes' = EmptyMapping
  /\ todo' = {}
  /\ filename' = NoFile
  /\ local_hash' = NoHash
  /\ sql_script_content' = << >>
  /\ statements' = << >>
  /\ i' = 0
  /\ deployed_count' = 0
  /\ skipped_count' = 0
  /\ error_count' = 0
  /\ exit_status' = -1
  /\ exit_kind' = "none"
  /\ log' = {}
  /\ db_ops' = {}
  /\ faults' = 0
  /\ applied' = {}
  /\ UNCHANGED <<fsVars, tableExists, table, pending, histVars>>

\* if not all([server, database, username, password])
EnvComplete(e) == {"DB_SERVER", "DB_DATABASE", "DB_USERNAME", "DB_PASSWORD"} \subseteq e

\* get_db_connection, the check of the environment
CheckEnv ==
  /\ pc = "get_db_connection"
  /\ IF EnvComplete(env)
     THEN /\ pc' = "connect"
          /\ UNCHANGED <<exit_status, exit_kind, log, pending, histVars>>
     ELSE Terminate(1, "fatal", log \cup {<<"env_missing">>})
  /\ UNCHANGED <<fsVars, tableExists, table, applied, env, attempt, cnxn,
                 deployed_hashes, loopVars, countVars, db_ops, faults>>

\* get_db_connection, one pass of the retry loop
Connect(ok) ==
  /\ pc = "connect"
  /\ attempt < max_retries
  /\ IF ok
     THEN \* return cnxn: the locals of get_db_connection are gone
          /\ cnxn' = "open"
          /\ env' = {}
          /\ attempt' = 0
          /\ pc' = "cursor"
     ELSE /\ attempt' = attempt + 1
          /\ UNCHANGED <<cnxn, env, pc>>
  /\ UNCHANGED <<fsVars, dbVars, deployed_hashes, loopVars, countVars,
                 exit_status, exit_kind, log, db_ops, faults, histVars>>

\* get_db_connection, the loop ended without a connection
ConnectExhausted ==
  /\ pc = "connect"
  /\ attempt = max_retries
  /\ Terminate(1, "fatal", log \cup {<<"connect_failed">>})
  /\ UNCHANGED <<fsVars, tableExists, table, applied, env, attempt, cnxn,
                 deployed_hashes, loopVars, countVars, db_ops, faults>>

\* cursor = cnxn.cursor(): a failure is caught nowhere
CreateCursor(ok) ==
  /\ pc = "cursor"
  /\ IF ok
     THEN /\ pc' = "ensure"
          /\ UNCHANGED <<exit_status, exit_kind, log, pending, histVars, faults>>
     ELSE /\ Fault(1)
          /\ Terminate(1, "unhandled", log)
  /\ UNCHANGED <<fsVars, tableExists, table, applied, env, attempt, cnxn,
                 deployed_hashes, loopVars, countVars, db_ops>>

\* The outcomes of an execute followed by a commit.
ExecOutcomes == {"ok", "execute_fails", "commit_fails"}

\* The calls an execute-and-commit makes on the connection.
ExecCalls(what, r) == IF r = "execute_fails" THEN {what} ELSE {what, "commit"}

\* ensure_metadata_table_exists
EnsureTable(r) ==
  /\ pc = "ensure"
  /\ db_ops' = db_ops \cup ExecCalls("create_table", r)
  /\ IF r = "ok"
     THEN /\ tableExists' = TRUE
          /\ pc' = "load"
          /\ log' = log \cup {<<"ensured">>}
          /\ UNCHANGED <<exit_status, exit_kind, pending, histVars, faults>>
     ELSE /\ Fault(1)
          /\ Terminate(1, "fatal", log \cup {<<"ensure_error">>})
          /\ UNCHANGED tableExists
  /\ UNCHANGED <<fsVars, table, applied, env, attempt, cnxn,
                 deployed_hashes, loopVars, countVars>>

\* The mapping of a failed load taken from the table all the same.
LoadedDespiteFailure == HashesOf(table)

\* What get_deployed_hashes returns when its query fails: the mapping as it was
\* initialised, deployed_hashes = {}.
LoadedOnFailure == EmptyMapping

\* get_deployed_hashes: the persisted mapping, or the empty one when the query fails
GetDeployedHashes(ok) ==
  /\ pc = "load"
  /\ ok => tableExists
  /\ db_ops' = db_ops \cup {"select"}
  /\ IF ok
     THEN /\ deployed_hashes' = HashesOf(table)
          /\ UNCHANGED <<log, faults>>
     ELSE /\ deployed_hashes' = LoadedOnFailure
          /\ log' = log \cup {<<"load_warning">>}
          /\ Fault(1)
  /\ pc' = "checkdir"
  /\ UNCHANGED <<fsVars, dbVars, env, attempt, cnxn, loopVars, countVars,
                 exit_status, exit_kind, histVars>>

\* if not os.path.exists(SP_SCRIPTS_DIR): sys.exit(1); else os.listdir
CheckDir ==
  /\ pc = "checkdir"
  /\ IF dirExists
     THEN /\ todo' = DOMAIN files
          /\ pc' = "loop"
          /\ UNCHANGED <<exit_status, exit_kind, log, pending, histVars>>
     ELSE /\ Terminate(1, "fatal", log \cup {<<"dir_not_found">>})
          /\ UNCHANGED todo
  /\ UNCHANGED <<fsVars, tableExists, table, applied, env, attempt, cnxn,
                 deployed_hashes, filename, local_hash, sql_script_content,
                 statements, i, countVars, db_ops, faults>>


\* The comparison of the fingerprints inverted.
UnchangedInverted(name, h) == deployed_hashes[name] # NoHash /\ deployed_hashes[name] # h

\* The comparison of the fingerprints left out: any record makes a script skipped.
UnchangedByName(name, h) == deployed_hashes[name] # NoHash

\* The skip left out: every script file is deployed again.
UnchangedNever(name, h) == FALSE

\* script_name in deployed_hashes and deployed_hashes[script_name] == local_hash
Unchanged(name, h) == deployed_hashes[name] # NoHash /\ deployed_hashes[name] = h

\* What is left of the open transaction after a rollback that succeeds.
Rollback(p) == {}

\* What a commit that succeeds makes durable: the work of the open transaction.
Commit(p) == p

\* One pass of the for loop up to the statements: the filter on the extension,
\* the fingerprint, the skip, the read of the text.  rb: the rollback of the
\* outer handler succeeds.
NextFile(fn, rb) ==
  /\ pc = "loop"
  /\ fn \in todo
  /\ todo' = todo \ {fn}
  /\ LET name == ScriptName(fn)
         h == calculate_file_hash(files[fn])
     IN
     IF ~IsSqlFile(fn)
     THEN /\ rb
          /\ UNCHANGED <<pc, filename, local_hash,
                         sql_script_content, statements, i, countVars, log, db_ops,
                         faults, pending, exit_status, exit_kind, histVars>>
     ELSE IF Unchanged(name, h)
     THEN /\ rb
          /\ skipped_count' = skipped_count + 1
          /\ log' = log \cup {<<"skip", fn>>}
          /\ UNCHANGED <<pc, filename, local_hash,
                         sql_script_content, statements, i, deployed_count, error_count,
                         db_ops, faults, pending, exit_status, exit_kind, histVars>>
     ELSE IF ~CanDecode(files[fn])
     THEN \* file.read() raises; except Exception: count, roll back
          /\ error_count' = error_count + 1
          /\ db_ops' = db_ops \cup {"rollback"}
          /\ UNCHANGED <<filename, local_hash,
                         sql_script_content, statements, i, deployed_count, skipped_count>>
          /\ IF rb
             THEN /\ pending' = Rollback(pending)
                  /\ log' = log \cup {<<"deploying", fn>>, <<"unexpected", fn>>}
                  /\ UNCHANGED <<pc, faults, exit_status, exit_kind, histVars>>
             ELSE /\ Fault(1)
                  /\ Terminate(1, "unhandled",
                               log \cup {<<"deploying", fn>>, <<"unexpected", fn>>})
     ELSE /\ rb
          /\ filename' = fn
          /\ local_hash' = h
          /\ sql_script_content' = ReadText(files[fn])
          /\ statements' = StatementsOf(files[fn])
          /\ log' = log \cup {<<"deploying", fn>>}
          /\ IF StatementsOf(files[fn]) = << >>
             THEN pc' = "after" /\ i' = 0
             ELSE pc' = "statements" /\ i' = 1
          /\ UNCHANGED <<countVars, db_ops, faults, pending, exit_status,
                         exit_kind, histVars>>
  /\ UNCHANGED <<fsVars, tableExists, table, applied, env, attempt, cnxn,
                 deployed_hashes>>

\* The outcomes of the rollbacks after a failed statement: the one of the inner
\* handler succeeds; it fails and the one of the outer handler succeeds; both fail.
RollbackOutcomes == {"ok", "fails", "fails_twice"}

\* The loop over the statements without its break.
NoBreak == TRUE

\* Whether the loop over the statements goes on after a statement that failed:
\* it does not, the handler ends with break.
ContinuesAfterError == FALSE

\* The for loop over the files left by a script that errored.
NothingLeftToScan(t) == {}

\* The files the for loop still takes after a script errored: every file that
\* was left, no handler leaves the for loop.
LeftToScan(t) == t

\* One pass of the loop over the statements: execute, commit; on a failure
\* count, roll back and leave the loop.
ExecStatement(r, rb) ==
  /\ pc = "statements"
  /\ LET name == ScriptName(filename)
         work == pending \cup {<<name, i>>}
         last == i >= Len(statements)
     IN
     IF r = "ok"
     THEN /\ rb = "ok"
          /\ applied' = applied \cup Commit(work)
          /\ pending' = {}
          /\ db_ops' = db_ops \cup ExecCalls("execute", r)
          /\ log' = log \cup {<<"executed", filename, i>>}
          /\ IF last THEN pc' = "after" /\ i' = 0
                     ELSE pc' = "statements" /\ i' = i + 1
          /\ UNCHANGED <<todo, filename, local_hash,
                         sql_script_content, statements, countVars, faults,
                         exit_status, exit_kind, histVars>>
     ELSE /\ db_ops' = db_ops \cup ExecCalls("execute", r) \cup {"rollback"}
          /\ todo' = LeftToScan(todo)
          /\ UNCHANGED <<applied, deployed_count, skipped_count>>
          /\ CASE rb = "ok" ->
                  /\ Fault(1)
                  /\ error_count' = error_count + 1
                  /\ pending' = Rollback(work)
                  /\ log' = log \cup {<<"stmt_error", filename, i>>}
                  /\ IF ContinuesAfterError /\ ~last
                     THEN pc' = "statements" /\ i' = i + 1
                     ELSE pc' = "after" /\ i' = 0
                  /\ UNCHANGED <<filename, local_hash,
                                 sql_script_content, statements, exit_status, exit_kind,
                                 histVars>>
               [] rb = "fails" ->
                  \* the rollback raises out of the handler; except pyodbc.Error
                  /\ Fault(2)
                  /\ error_count' = error_count + 2
                  /\ pending' = Rollback(work)
                  /\ log' = log \cup {<<"stmt_error", filename, i>>,
                                      <<"error_deploying", filename>>}
                  /\ pc' = "loop"
                  /\ filename' = NoFile
                  /\ local_hash' = NoHash
                  /\ sql_script_content' = << >>
                  /\ statements' = << >>
                  /\ i' = 0
                  /\ UNCHANGED <<exit_status, exit_kind, histVars>>
               [] OTHER ->
                  \* the rollback of the outer handler raises too
                  /\ Fault(3)
                  /\ error_count' = error_count + 2
                  /\ Terminate(1, "unhandled",
                               log \cup {<<"stmt_error", filename, i>>,
                                         <<"error_deploying", filename>>})
                  /\ UNCHANGED <<filename, local_hash, sql_script_content, statements, i>>
  /\ UNCHANGED <<fsVars, tableExists, table, env, attempt, cnxn,
                 deployed_hashes>>

\* The upsert as a plain INSERT: no test for a record of the name.
MergeAlwaysInserts(rows, name, h) == rows \cup {<<name, h>>}

\* MERGE ... ON target.script_name = source.script_name: update the hash of the
\* records of the name when there are any, insert a record when there is none.
Merge(rows, name, h) ==
  IF \E r \in rows : r[1] = name
  THEN {IF r[1] = name THEN <<name, h>> ELSE r : r \in rows}
  ELSE rows \cup {<<name, h>>}

\* if error_count == 0
UpsertDue == error_count = 0

\* The handler of update_deployment_metadata with the failure swallowed: the
\* loop goes on to the next file.
UpsertFailedGoesOn(name) ==
  /\ pc' = "loop"
  /\ log' = log \cup {<<"metadata_error", name>>}
  /\ UNCHANGED <<exit_status, exit_kind, pending, histVars>>

\* update_deployment_metadata, except pyodbc.Error: log and sys.exit(1), which
\* the handlers of the caller (except Exception) do not catch.
UpsertFailed(name) == Terminate(1, "fatal", log \cup {<<"metadata_error", name>>})

\* After the statements of a script: update_deployment_metadata and the count
\* of deployed scripts, when no error was counted.
AfterStatements(r) ==
  /\ pc = "after"
  /\ LET name == ScriptName(filename)
     IN
     IF UpsertDue
     THEN /\ db_ops' = db_ops \cup ExecCalls("merge", r)
          /\ IF r = "ok"
             THEN /\ table' = Merge(table, name, local_hash)
                  /\ applied' = applied \cup Commit(pending)
                  /\ pending' = {}
                  /\ deployed_count' = deployed_count + 1
                  /\ log' = log \cup {<<"metadata_updated", name>>,
                                      <<"deployed", filename>>}
                  /\ pc' = "loop"
                  /\ filename' = NoFile
                  /\ local_hash' = NoHash
                  /\ sql_script_content' = << >>
                  /\ statements' = << >>
                  /\ UNCHANGED <<faults, exit_status, exit_kind, histVars>>
             ELSE /\ Fault(1)
                  /\ UpsertFailed(name)
                  /\ UNCHANGED <<table, applied, deployed_count, filename, local_hash,
                                 sql_script_content, statements>>
     ELSE /\ r = "ok"
          /\ pc' = "loop"
          /\ filename' = NoFile
          /\ local_hash' = NoHash
          /\ sql_script_content' = << >>
          /\ statements' = << >>
          /\ UNCHANGED <<table, applied, pending, deployed_count, log, db_ops,
                         faults, exit_status, exit_kind, histVars>>
  /\ UNCHANGED <<fsVars, tableExists, env, attempt, cnxn, deployed_hashes,
                 todo, i, skipped_count, error_count>>

\* cnxn.close() after the loop: a failure is caught nowhere
CloseConnection(ok) ==
  /\ pc = "loop"
  /\ todo = {}
  /\ db_ops' = db_ops \cup {"close"}
  /\ IF ok
     THEN /\ cnxn' = "closed"
          /\ pc' = "summary"
          /\ UNCHANGED <<faults, exit_status, exit_kind, log, pending, histVars>>
     ELSE /\ Fault(1)
          /\ Terminate(1, "unhandled", log)
          /\ UNCHANGED cnxn
  /\ UNCHANGED <<fsVars, tableExists, table, applied, env, attempt,
                 deployed_hashes, loopVars, countVars>>

\* The exit status with a partial success reported as success.
SummaryStatusPartial == IF error_count > 0 /\ deployed_count = 0 THEN 1 ELSE 0

\* The summary and the exit status: 1 with errors, 0 without.
SummaryStatus == IF error_count > 0 THEN 1 ELSE 0

Summary ==
  /\ pc = "summary"
  /\ Terminate(SummaryStatus, "summary", log \cup {<<"summary">>})
  /\ UNCHANGED <<fsVars, tableExists, table, applied, env, attempt, cnxn,
                 deployed_hashes, loopVars, countVars, db_ops, faults>>

Next ==
  \/ \E fn \in FileNames, c \in ContentIds : WriteFile(fn, c)
  \/ \E fn \in FileNames : DeleteFile(fn)
  \/ RemoveDir
  \/ CreateDir
  \/ StartRun
  \/ CheckEnv
  \/ \E ok \in BOOLEAN : Connect(ok)
  \/ ConnectExhausted
  \/ \E ok \in BOOLEAN : CreateCursor(ok)
  \/ \E r \in ExecOutcomes : EnsureTable(r)
  \/ \E ok \in BOOLEAN : GetDeployedHashes(ok)
  \/ CheckDir
  \/ \E fn \in FileNames, rb \in BOOLEAN : NextFile(fn, rb)
  \/ \E r \in ExecOutcomes, rb \in RollbackOutcomes : ExecStatement(r, rb)
  \/ \E r \in ExecOutcomes : AfterStatements(r)
  \/ \E ok \in BOOLEAN : CloseConnection(ok)
  \/ Summary

Spec == Init /\ [][Next]_vars

\* ------------------------------------------------- the splitter on its own
\* The lines a text given to the splitter is made of: a statement, the keyword
\* alone, the keyword in other case between blanks, the keyword at the start
\* and at the end of a larger token, the keyword after other text, a blank
\* line, a statement between blanks, an empty line.
Lines ==
  { <<"a">>,
    <<"G", "O">>,
    <<" ", "g", "O", "\t">>,
    <<"G", "O", "x">>,
    <<"x", "G", "O">>,
    <<"a", " ", "G", "O">>,
    <<" ">>,
    <<" ", "b", " ">>,
    << >> }

\* The texts of at most MaxLines lines, and the text of the second file content.
Texts == UNION {[1..n -> Lines] : n \in 0..MaxLines} \cup {ReadText(2)}

\* A text has been read from a script: lines 181-182 with any text.
SplitInit ==
  /\ dirExists = TRUE
  /\ files = << >>
  /\ edits = 0
  /\ tableExists = FALSE
  /\ table = {}
  /\ applied = {}
  /\ pending = {}
  /\ pc = "text_read"
  /\ env = {}
  /\ attempt = 0
  /\ cnxn = "open"
  /\ deployed_hashes = EmptyMapping
  /\ todo = {}
  /\ filename = NoFile
  /\ local_hash = NoHash
  /\ i = 0
  /\ sql_script_content \in Texts
  /\ statements = << >>
  /\ deployed_count = 0
  /\ skipped_count = 0
  /\ error_count = 0
  /\ exit_status = -1
  /\ exit_kind = "none"
  /\ log = {}
  /\ db_ops = {}
  /\ faults = 0
  /\ ok_earlier = {}
  /\ last_clean = FALSE

\* statements = [stmt.strip() for stmt in re.split(...) if stmt.strip()]
Split ==
  /\ pc = "text_read"
  /\ statements' = SplitStatements(sql_script_content)
  /\ pc' = "text_split"
  /\ UNCHANGED <<fsVars, dbVars, env, attempt, cnxn, deployed_hashes, todo,
                 filename, local_hash, i, sql_script_content, countVars,
                 exit_status, exit_kind, log, db_ops, faults, histVars>>

SplitNext == Split

SplitSpec == SplitInit /\ [][SplitNext]_vars


\* ------------------------------------------------------------------ claims
\* The fingerprint persisted for each script name, NoHash when there is none.
Persisted == HashesOf(table)

\* The script files of the directory.
ScriptFiles == {fn \in DOMAIN files : IsSqlFile(fn)}

\* The run has executed, or tried to execute, a statement of the file fn.
Executed(fn) ==
  \E k \in 1..Len(StatementsOf(files[fn])) :
     <<"executed", fn, k>> \in log \/ <<"stmt_error", fn, k>> \in log

\* The files the run has logged as deployed.
DeployedFiles == {fn \in ScriptFiles : <<"deployed", fn>> \in log}

\* C1: in a run that reaches the summary, every changed script whose statements
\* all executed without error is counted as deployed, whatever the outcome of the
\* other scripts and wherever an erroring script sits in the scan order: the
\* count of deployed scripts is the number of such scripts.
C1_CleanScriptsAreDeployed ==
  pc = "summary" =>
     /\ \A s \in RanClean(log) : <<"deployed", FileOf(s)>> \in log
     /\ deployed_count = Cardinality(RanClean(log))

\* C2: when a run reaches the summary, the metadata table maps every script whose
\* statements all executed without error in that run to the fingerprint computed
\* for it in that run.
C2_CleanScriptsAreRecorded ==
  pc = "summary" =>
     \A s \in RanClean(log) : Persisted[s] = calculate_file_hash(files[FileOf(s)])

\* C3: a script whose current bytes had all their statements executed without
\* error in an earlier run is not executed again in a later run while the bytes
\* stay unchanged.  Stated for an earlier run that reached its summary and a
\* later run in which no call on the connection fails: neither a failed upsert
\* nor a failed load of the metadata is involved.
C3_AtMostOncePerChange ==
  (pc \notin {"not_started", "exited"} /\ faults = 0) =>
     \A s \in ok_earlier : FileOf(s) \in DOMAIN files => ~Executed(FileOf(s))

\* C4: when a run ended with zero errors, the directory was not edited since and
\* no call on the connection fails in the next run, that run reaches the summary
\* with deployed = 0, skipped = the number of script files, errored = 0, and has
\* executed no statement.
C4_Idempotence ==
  (pc = "summary" /\ last_clean /\ faults = 0) =>
     /\ deployed_count = 0
     /\ skipped_count = Cardinality(ScriptFiles)
     /\ error_count = 0
     /\ "execute" \notin db_ops
     /\ \A fn \in ScriptFiles : ~Executed(fn)

\* C4 witness: a second run over unchanged files that skipped every script.
C4_Witness ==
  /\ pc = "summary"
  /\ last_clean
  /\ faults = 0
  /\ skipped_count = NumScripts
  /\ Cardinality(ScriptFiles) = NumScripts


\* The step is the pass of the for loop that takes the script file fn.
Takes(fn) == pc = "loop" /\ fn \in todo /\ fn \notin todo'

\* C5 as claimed: in a pass of the loop the deployment of a script file is
\* started (its text read, its statements executed) if and only if its
\* fingerprint differs from the persisted one for its name, or none is
\* persisted.
C5_ExecutedIffPersistedDiffers ==
  [][\A fn \in SqlFiles :
       Takes(fn) =>
         ((<<"deploying", fn>> \in log') <=>
            (Persisted[ScriptName(fn)] # calculate_file_hash(files[fn])))]_vars

\* C5 amended: the mapping loaded at the start of a run is the persisted one, or
\* the empty one after a failed load; in a pass of the loop the deployment of a
\* script file is started if and only if its fingerprint differs from the one
\* loaded for its name or none was loaded, and its statements are then executed
\* when its text can be read and holds a statement; in a run that reaches the
\* summary every script file was taken once, as skipped or as deployed from,
\* and no skipped one was executed.
C5_ChangeDetection ==
  [][/\ pc = "load" => deployed_hashes' \in {Persisted, EmptyMapping}
     /\ \A fn \in SqlFiles :
          Takes(fn) =>
            /\ <<"skip", fn>> \notin log /\ <<"deploying", fn>> \notin log
            /\ (<<"deploying", fn>> \in log') <=>
                 (deployed_hashes[ScriptName(fn)] # calculate_file_hash(files[fn]))
            /\ (<<"skip", fn>> \in log') <=>
                 (deployed_hashes[ScriptName(fn)] = calculate_file_hash(files[fn]))
            /\ (pc' = "statements") <=>
                 /\ <<"deploying", fn>> \in log'
                 /\ CanDecode(files[fn])
                 /\ StatementsOf(files[fn]) # << >>
     /\ pc = "summary" =>
          /\ skipped_count = Cardinality({fn \in ScriptFiles : <<"skip", fn>> \in log})
          /\ \A fn \in ScriptFiles :
               /\ (<<"skip", fn>> \in log) # (<<"deploying", fn>> \in log)
               /\ <<"skip", fn>> \in log => ~Executed(fn)
               /\ (<<"deploying", fn>> \in log /\ CanDecode(files[fn])) => Executed(fn)
    ]_vars

\* C5 witness: a script with a record of other bytes is being executed.
C5_Witness ==
  /\ pc = "statements"
  /\ deployed_hashes[ScriptName(filename)] \notin {NoHash, local_hash}

\* C6: the statements of a script are executed in source order, each committed
\* as soon as it succeeded; when statement k fails, statements 1..k-1 stay
\* committed, statement k is not committed and nothing of it is left in the open
\* transaction, no later statement is executed, and no metadata is upserted for
\* the script in that run.
C6_StatementIsolation ==
  \A fn \in ScriptFiles :
    \A k \in 1..Len(StatementsOf(files[fn])) :
      LET name == ScriptName(fn)
          ex(j) == <<"executed", fn, j>> \in log
          er(j) == <<"stmt_error", fn, j>> \in log
          n == Len(StatementsOf(files[fn]))
      IN  /\ (ex(k) \/ er(k)) => \A j \in 1..(k - 1) : ex(j)
          /\ ex(k) <=> <<name, k>> \in applied
          /\ er(k) =>
               /\ ~ex(k)
               /\ <<name, k>> \notin pending
               /\ \A j \in (k + 1)..n : ~ex(j) /\ ~er(j)
               /\ <<"metadata_updated", name>> \notin log
               /\ <<"metadata_error", name>> \notin log
               /\ <<"deployed", fn>> \notin log

\* C6 witness: the second of three statements failed, the first is committed.
C6_Witness ==
  \E fn \in ScriptFiles :
    /\ Len(StatementsOf(files[fn])) = 3
    /\ <<"stmt_error", fn, 2>> \in log
    /\ <<ScriptName(fn), 1>> \in applied
    /\ pc = "summary"

\* C7: when a run reaches the summary, deployed + skipped + errored is the
\* number of script files scanned (stated for runs in which no rollback failed).
C7_EveryScriptCounted ==
  (pc = "summary" /\ \A fn \in ScriptFiles : <<"error_deploying", fn>> \notin log) =>
     deployed_count + skipped_count + error_count = Cardinality(ScriptFiles)

\* C8: a script is counted as deployed only with its fingerprint committed to the
\* metadata table; when the upsert fails the process has ended at once with
\* status 1, the script is not counted as deployed, and no later file of the
\* scan was taken.
C8_MetadataDurability ==
  /\ deployed_count = Cardinality(DeployedFiles)
  /\ \A fn \in DeployedFiles :
       /\ <<"metadata_updated", ScriptName(fn)>> \in log
       /\ Persisted[ScriptName(fn)] = calculate_file_hash(files[fn])
  /\ \A s \in ScriptNames :
       <<"metadata_error", s>> \in log =>
          /\ pc = "exited"
          /\ exit_status = 1
          /\ <<"deployed", FileOf(s)>> \notin log
          /\ <<"summary">> \notin log
          /\ \A fn \in todo : <<"skip", fn>> \notin log /\ <<"deploying", fn>> \notin log

\* C8 witness: the upsert failed with files of the scan still to take.
C8_Witness ==
  /\ \E s \in ScriptNames : <<"metadata_error", s>> \in log
  /\ todo # {}
  /\ pc = "exited"

\* The run has written to the database: it has committed the creation of the
\* table, a statement or an upsert.
Wrote ==
  \/ <<"ensured">> \in log
  \/ applied # {}
  \/ \E s \in ScriptNames : <<"metadata_updated", s>> \in log

\* C9: with the scripts directory missing or empty, the run ends with a fatal
\* error and has made no write to the database.
C9_NoWriteWithoutScripts ==
  (pc = "exited" /\ (~dirExists \/ ScriptFiles = {})) =>
     /\ exit_status = 1
     /\ exit_kind # "summary"
     /\ ~Wrote

\* C10: on every path on which the process exits after a connection was
\* obtained (the summary, the missing directory, the failure to ensure the
\* table, the failure of the upsert), close has been called on the connection.
C10_ConnectionClosed ==
  (pc = "exited" /\ cnxn # "none" /\ exit_kind \in {"summary", "fatal"}) =>
     "close" \in db_ops

\* C11: when one of the five connection parameters (server, database, user,
\* password, port) is absent from the environment, the process has ended with a
\* fatal exit of status 1 as soon as the environment was checked, with no
\* connection attempt made and no connection obtained.
C11_MissingParameterIsFatal ==
  (env # {} /\ env # EnvVars /\ pc # "get_db_connection") =>
     /\ pc = "exited"
     /\ exit_kind = "fatal"
     /\ exit_status = 1
     /\ attempt = 0
     /\ cnxn = "none"

\* C12: a failing statement of one script does not stop the run: once a
\* statement has failed, the process ends before the summary only when a further
\* call on the connection fails and nothing catches it; and in a run that
\* reaches the summary every script file of the scan was fingerprinted and
\* either skipped as unchanged or deployed from, its statements executed when
\* its text could be read.
C12_FailureIsolation ==
  /\ \A fn \in ScriptFiles :
       ((\E k \in 1..Len(StatementsOf(files[fn])) : <<"stmt_error", fn, k>> \in log)
          /\ pc = "exited" /\ exit_kind # "summary") =>
            (exit_kind = "unhandled" /\ faults >= 2)
  /\ pc = "summary" =>
       \A fn \in ScriptFiles :
          \/ <<"skip", fn>> \in log
          \/ /\ <<"deploying", fn>> \in log
             /\ (CanDecode(files[fn]) /\ StatementsOf(files[fn]) # << >>) => Executed(fn)

\* C12 witness: a statement of one script failed, and a script taken after it
\* had all its statements executed in the same run.
C12_Witness ==
  /\ pc = "summary"
  /\ \E fn \in ScriptFiles, s \in RanClean(log) :
       /\ fn # FileOf(s)
       /\ \E k \in 1..Len(StatementsOf(files[fn])) : <<"stmt_error", fn, k>> \in log
       /\ <<"deployed", FileOf(s)>> \notin log
       /\ <<"skip", FileOf(s)>> \notin log

\* C13: a run that ended through the summary has exit status 1 when its count of
\* errors is above zero and exit status 0 when it is zero, also when scripts
\* were deployed in the same run.
C13_ExitStatus ==
  (pc = "exited" /\ exit_kind = "summary") =>
     /\ error_count > 0 => exit_status = 1
     /\ error_count = 0 => exit_status = 0

\* C13 witness: a run with one script deployed and one errored ended with
\* status 1.
C13_Witness ==
  /\ pc = "exited"
  /\ exit_kind = "summary"
  /\ deployed_count > 0
  /\ error_count > 0
  /\ exit_status = 1

\* C14: the connection retry is bounded: at most 10 attempts are made; once an
\* attempt succeeded the connection is returned and no further attempt is made;
\* after 10 failed attempts in a row the process has ended with status 1 with no
\* connection and without any operation on the database.
C14_BoundedRetry ==
  /\ attempt <= 10
  /\ pc \in {"get_db_connection", "connect"} => cnxn = "none"
  /\ (pc = "exited" /\ cnxn = "none" /\ env = EnvVars) =>
        <<"connect_failed">> \in log
  /\ <<"connect_failed">> \in log =>
        /\ pc = "exited"
        /\ exit_status = 1
        /\ exit_kind = "fatal"
        /\ attempt = 10
        /\ cnxn = "none"
        /\ db_ops = {}
        /\ ~Wrote

\* C14 witness: ten attempts failed and the process ended.
C14_Witness ==
  /\ <<"connect_failed">> \in log
  /\ attempt = 10
  /\ pc = "exited"

\* C15: a failure to load the persisted metadata does not end the run: the
\* mapping the run works with is empty, no script file is skipped, and when no
\* other call fails and the directory exists the run ends through the summary,
\* where every script file was deployed from and its statements were executed
\* when its text could be read.
C15_LoadFailureTolerated ==
  <<"load_warning">> \in log =>
     /\ deployed_hashes = EmptyMapping
     /\ skipped_count = 0
     /\ \A fn \in ScriptFiles : <<"skip", fn>> \notin log
     /\ (pc = "exited" /\ faults = 1 /\ dirExists) => exit_kind = "summary"
     /\ pc = "summary" =>
          \A fn \in ScriptFiles :
             /\ <<"deploying", fn>> \in log
             /\ (CanDecode(files[fn]) /\ StatementsOf(files[fn]) # << >>) => Executed(fn)

\* C15 witness: after a failed load a script whose fingerprint equals the
\* persisted one was executed, and the run reached the summary.
C15_Witness ==
  /\ <<"load_warning">> \in log
  /\ pc = "summary"
  /\ \E fn \in ScriptFiles :
       /\ Persisted[ScriptName(fn)] = calculate_file_hash(files[fn])
       /\ <<"metadata_updated", ScriptName(fn)>> \notin log
       /\ Executed(fn)

\* The characters the pattern and strip() take as white space.
Blanks == {" ", "\t"}

\* The line holds the keyword GO in any letter case and nothing else but blanks
\* around it.
OnlyGo(line) ==
  \E a \in 0..Len(line) :
     /\ a + 2 <= Len(line)
     /\ \A j \in 1..a : line[j] \in Blanks
     /\ line[a + 1] \in {"G", "g"}
     /\ line[a + 2] \in {"O", "o"}
     /\ \A j \in (a + 3)..Len(line) : line[j] \in Blanks

\* The line has a character that is no blank.
HasText(line) == \E j \in 1..Len(line) : line[j] \notin Blanks

\* The lines of text that start a maximal run of lines without a separator line
\* in which some line has text.
RunStarts(text) ==
  {a \in 1..Len(text) :
     /\ ~OnlyGo(text[a])
     /\ a = 1 \/ OnlyGo(text[a - 1])
     /\ \E k \in a..Len(text) :
          HasText(text[k]) /\ \A j \in a..k : ~OnlyGo(text[j])}

\* The last line of the maximal run that starts at line a.
RunEnd(text, a) ==
  CHOOSE b \in a..Len(text) :
     /\ \A j \in a..b : ~OnlyGo(text[j])
     /\ b = Len(text) \/ OnlyGo(text[b + 1])

\* The line without its blanks at the start, at the end.
WithoutLeadingBlanks(line) ==
  LET f == CHOOSE j \in 1..Len(line) :
              line[j] \notin Blanks /\ \A m \in 1..(j - 1) : line[m] \in Blanks
  IN  [k \in 1..(Len(line) - f + 1) |-> line[f + k - 1]]

WithoutTrailingBlanks(line) ==
  LET l == CHOOSE j \in 1..Len(line) :
              line[j] \notin Blanks /\ \A m \in (j + 1)..Len(line) : line[m] \in Blanks
  IN  [k \in 1..l |-> line[k]]

\* The run of text that starts at line a, trimmed: from its first line with text
\* to its last, without the blanks before the first text and after the last.
TrimmedRun(text, a) ==
  LET b == RunEnd(text, a)
      withText == {k \in a..b : HasText(text[k])}
      f == CHOOSE k \in withText : \A m \in withText : k <= m
      l == CHOOSE k \in withText : \A m \in withText : m <= k
  IN  [k \in 1..(l - f + 1) |->
         LET line == text[f + k - 1]
             left == IF k = 1 THEN WithoutLeadingBlanks(line) ELSE line
         IN  IF k = l - f + 1 THEN WithoutTrailingBlanks(left) ELSE left]

\* The trimmed runs of text in source order.
TrimmedRuns(text) ==
  LET starts == RunStarts(text)
  IN  [j \in 1..Cardinality(starts) |->
         TrimmedRun(text, CHOOSE a \in starts :
                             Cardinality({c \in starts : c < a}) = j - 1)]

\* C16: the statements split from a text are its maximal runs of lines between
\* the lines that hold only the keyword GO (any letter case, blanks around it),
\* each trimmed, the empty ones left out, in source order; a text without such a
\* line is not split, whatever else holds the letters GO; and the text
\* stmtA / GO / stmtB / "  go  " / stmtC gives exactly stmtA, stmtB, stmtC.
C16_Splitter ==
  pc = "text_split" =>
     /\ statements = TrimmedRuns(sql_script_content)
     /\ (\A k \in 1..Len(sql_script_content) : ~OnlyGo(sql_script_content[k])) =>
           Len(statements) <= 1
     /\ sql_script_content = ReadText(2) =>
           statements = << << <<"s", "t", "m", "t", "A">> >>,
                           << <<"s", "t", "m", "t", "B">> >>,
                           << <<"s", "t", "m", "t", "C">> >> >>

\* C16 witness: the text of the example was split in three statements.
C16_Witness ==
  /\ pc = "text_split"
  /\ sql_script_content = ReadText(2)
  /\ Len(statements) = 3

\* C17: the pass of the loop over a script file whose name is in the loaded
\* mapping with a fingerprint equal to the local one executes no statement and
\* makes no commit, no rollback and no metadata write: it makes no call on the
\* connection and leaves the database, the other counters and the position of
\* the run as they were; the count of skipped scripts grows by one.
C17_SkipHasNoEffect ==
  [][\A fn \in SqlFiles :
       (Takes(fn) /\ deployed_hashes[ScriptName(fn)] = calculate_file_hash(files[fn])) =>
          /\ skipped_count' = skipped_count + 1
          /\ db_ops' = db_ops
          /\ log' = log \cup {<<"skip", fn>>}
          /\ pc' = "loop"
          /\ UNCHANGED <<fsVars, dbVars, cnxn, deployed_hashes, deployed_count,
                         error_count, exit_status, exit_kind, faults>>
    ]_vars

\* C17 witness: a run that skipped one script file and executed another.
C17_Witness ==
  /\ pc = "summary"
  /\ skipped_count = 1
  /\ \E fn \in ScriptFiles : <<"skip", fn>> \in log /\ Persisted[ScriptName(fn)] # NoHash
  /\ \E fn \in ScriptFiles : Executed(fn)

\* The script files for which the run has logged an error.
ErroredFiles ==
  {fn \in ScriptFiles :
     \/ <<"unexpected", fn>> \in log
     \/ <<"error_deploying", fn>> \in log
     \/ \E k \in 1..Len(StatementsOf(files[fn])) : <<"stmt_error", fn, k>> \in log}

\* C18: every script adds at most 1 to the count of errors of a run, whatever
\* failed while it was processed: the count is at most the number of script
\* files with an error, and so at most the number of script files taken.
C18_OneErrorPerScript ==
  /\ error_count <= Cardinality(ErroredFiles)
  /\ error_count <= Cardinality(ScriptFiles \ todo)

\* C19: no failure of a call on the connection (cursor, execute, commit,
\* rollback, close) ends the run as an exception that nothing catches: a run
\* ends through the summary or through one of the fatal exits.
C19_NoUnhandledFailure ==
  pc = "exited" => exit_kind \in {"summary", "fatal"}

\* C20: no step deletes a record of the metadata table, and the table holds at
\* most one record per script name; the fingerprint stored for a name changes
\* only in the step that upserts it for the script being deployed, after every
\* statement of that script was executed without error, and becomes the
\* fingerprint computed for the file in this run; so the records of skipped
\* scripts, of errored scripts and of names with no file in the directory are
\* after the run what they were before it.
C20_MetadataFrame ==
  [][/\ \A r \in table : \E r2 \in table' : r2[1] = r[1]
     /\ \A s \in ScriptNames : Cardinality({r \in table' : r[1] = s}) <= 1
     /\ \A s \in ScriptNames :
          Persisted'[s] # Persisted[s] =>
             /\ pc = "after"
             /\ s = ScriptName(filename)
             /\ filename \in ScriptFiles
             /\ \A k \in 1..Len(StatementsOf(files[filename])) :
                  <<"executed", filename, k>> \in log
             /\ filename \notin ErroredFiles
             /\ <<"skip", filename>> \notin log
             /\ Persisted'[s] = calculate_file_hash(files[filename])
             /\ <<"metadata_updated", s>> \in log'
             /\ <<"metadata_updated", s>> \notin log
     /\ \A s \in ScriptNames :
          <<"metadata_updated", s>> \in log' =>
             /\ FileOf(s) \in ScriptFiles'
             /\ FileOf(s) \notin ErroredFiles'
             /\ <<"skip", FileOf(s)>> \notin log'
    ]_vars

\* C20 witness: a run has upserted the record of one script while another name
\* keeps the record of an earlier run: its script was skipped, errored, or has
\* no file in the directory any more.
C20_Witness ==
  /\ pc = "summary"
  /\ \E s, s2 \in ScriptNames :
       /\ s # s2
       /\ <<"metadata_updated", s>> \in log
       /\ <<"metadata_updated", s2>> \notin log
       /\ Persisted[s2] # NoHash

====
